---- MODULE Spec2Model ----
(***************************************************************************)
(* A model of PyLaTeX's Document (pylatex/document.py) and of its math     *)
(* nodes Math, VectorName and Matrix (pylatex/math.py).                    *)
(*                                                                         *)
(* Text is a sequence of tokens: every string literal the code            *)
(* concatenates is one token, except that a literal ending in a line      *)
(* break is split before the line break ('$$\n' is "$$", "\n"), so that   *)
(* delimiters and separators can be counted.  Paths are sequences of      *)
(* one-character strings.  None is the empty sequence, a present optional *)
(* value a one-element sequence.                                           *)
(*                                                                         *)
(* pylatex/base_classes, pylatex/package and pylatex/utils are imported   *)
(* by both files and are not part of the sources at hand; the definitions *)
(* that stand for them (LatexObject, Container, Command, Package,         *)
(* dumps_list, rm_temp_dir) follow the written specification.             *)
(***************************************************************************)
EXTENDS Integers, Sequences, FiniteSets, TLC

VARIABLES
    doc,        \* the Document object
    renders,    \* what Document.dumps returned, and the registry it left, since the last append
    node,       \* a Math or Matrix object on its own
    result,     \* what node.dumps() returned
    cwd,        \* the process's current working directory
    files,      \* the files that exist
    tmpdir,     \* whether the temporary directory exists
    call,       \* the generate_pdf call: its arguments, what it met, its outcome
    selected    \* the last select_filepath call: its argument and what it returned

vars == <<doc, renders, node, result, cwd, files, tmpdir, call, selected>>

----------------------------------------------------------------------------
(* Bounds *)

MaxRows == 2
MaxCols == 3
MaxMathLen == 2
MaxChildren == 2
MaxRenders == 2
MaxPathLen == 3

----------------------------------------------------------------------------
(* Text *)

None == <<>>
Some(v) == <<v>>

linesep == "\n"

RECURSIVE Join(_, _)
\* token.join(texts)
Join(texts, token) ==
    IF texts = <<>> THEN <<>>
    ELSE IF Len(texts) = 1 THEN Head(texts)
    ELSE Head(texts) \o <<token>> \o Join(Tail(texts), token)

Digit == <<"0", "1", "2", "3", "4", "5", "6", "7", "8", "9">>

RECURSIVE str(_)
\* str(value) of an integer element
str(n) ==
    IF n < 0 THEN "-" \o str(-n)
    ELSE IF n < 10 THEN Digit[n + 1]
    ELSE str(n \div 10) \o Digit[(n % 10) + 1]

----------------------------------------------------------------------------
(* base_classes and package *)

\* Package(name, options=...): a \usepackage command
Package(name, options) ==
    [kind |-> "Package", name |-> name, options |-> options]

\* Command(command, arguments, options, packages)
Command(command, arguments, options, packages) ==
    [kind |-> "Command", command |-> command, arguments |-> arguments,
     options |-> options, packages |-> packages]

\* a literal text child
Text(s) == [kind |-> "Text", text |-> s]

RECURSIVE Braced(_)
Braced(arguments) ==
    IF arguments = <<>> THEN <<>>
    ELSE <<"{", Head(arguments), "}">> \o Braced(Tail(arguments))

Bracketed(options) ==
    IF options = <<>> THEN <<>>
    ELSE <<"[">> \o Join([i \in 1..Len(options) |-> <<options[i]>>], ",") \o <<"]">>

\* Command.dumps
Command_dumps(c) ==
    <<"\\" \o c.command>> \o Bracketed(c.options) \o Braced(c.arguments)

\* Package.dumps
Package_dumps(p) ==
    <<"\\usepackage">> \o Bracketed(p.options) \o <<"{", p.name, "}">>

HasName(registry, name) == \E i \in 1..Len(registry) : registry[i].name = name

RECURSIVE Merge(_, _)
\* the registry with the packages added: one entry per name, the first stays
Merge(registry, packages) ==
    IF packages = <<>> THEN registry
    ELSE Merge(IF HasName(registry, Head(packages).name) THEN registry
               ELSE Append(registry, Head(packages)),
               Tail(packages))

\* LatexObject.__init__(packages=...)
LatexObject_init(packages) == Merge(<<>>, packages)

\* LatexObject.dumps_packages
dumps_packages(self) ==
    Join([i \in 1..Len(self.packages) |-> Package_dumps(self.packages[i])], linesep)

IsContainer(item) == item.kind \in {"Math", "Document"}

RECURSIVE propagate_packages(_)
RECURSIVE PropagateItems(_, _, _)
\* the items from i on, each container among them propagated, and the registry
PropagateItems(data, registry, i) ==
    IF i > Len(data) THEN [data |-> data, packages |-> registry]
    ELSE LET item == IF IsContainer(data[i]) THEN propagate_packages(data[i])
                     ELSE data[i]
             own  == IF item.kind = "Text" THEN <<>> ELSE item.packages
         IN  PropagateItems([data EXCEPT ![i] = item], Merge(registry, own), i + 1)

\* Container.propagate_packages
propagate_packages(self) ==
    LET r == PropagateItems(self.data, self.packages, 1)
    IN  [self EXCEPT !.data = r.data, !.packages = r.packages]

----------------------------------------------------------------------------
(* math.py *)

\* an array of the given shape over its flat row-major buffer
Array(rows, cols, flat) == [shape |-> <<rows, cols>>, flat |-> flat]

\* Matrix.__init__ as it would be without the amsmath declaration
Matrix_init_no_package(matrix, name, mtype, alignment) ==
    [kind |-> "Matrix", mtype |-> mtype, matrix |-> matrix,
     alignment |-> alignment, name |-> name,
     packages |-> LatexObject_init(<<>>)]

\* Matrix.__init__
Matrix_init(matrix, name, mtype, alignment) ==
    [kind |-> "Matrix", mtype |-> mtype, matrix |-> matrix,
     alignment |-> alignment, name |-> name,
     packages |-> LatexObject_init(<<Package("amsmath", <<>>)>>)]

\* VectorName.__init__
VectorName(name) == Command("mathbf", <<name>>, <<>>, <<>>)

RowSep == "\\\\"
ColSep == "&"

RECURSIVE NdEnumerate(_, _)
\* the loop over np.ndenumerate(self.matrix), from the k-th element (0-based) on
NdEnumerate(matrix, k) ==
    LET shape == matrix.shape
        y == k \div shape[2]
        x == k % shape[2]
    IN  IF k >= shape[1] * shape[2] THEN <<>>
        ELSE (IF x # 0 THEN <<ColSep>> ELSE <<>>)
             \o <<str(matrix.flat[k + 1])>>
             \o (IF x = shape[2] - 1 /\ y # shape[1] - 1 THEN <<RowSep, "\n">> ELSE <<>>)
             \o NdEnumerate(matrix, k + 1)

\* the loop as it would be with the row separator after the last row too
RECURSIVE NdEnumerateEveryRow(_, _)
NdEnumerateEveryRow(matrix, k) ==
    LET shape == matrix.shape
        x == k % shape[2]
    IN  IF k >= shape[1] * shape[2] THEN <<>>
        ELSE (IF x # 0 THEN <<ColSep>> ELSE <<>>)
             \o <<str(matrix.flat[k + 1])>>
             \o (IF x = shape[2] - 1 THEN <<RowSep, "\n">> ELSE <<>>)
             \o NdEnumerateEveryRow(matrix, k + 1)

MatrixBodyEveryRow(matrix) == NdEnumerateEveryRow(matrix, 0)

\* Matrix.dumps: the body, between the begin line and the end line
MatrixBody(matrix) == NdEnumerate(matrix, 0)

\* Matrix.dumps
Matrix_dumps(self) ==
    LET starred   == self.alignment # None
        mtype     == self.mtype \o "matrix" \o (IF starred THEN "*" ELSE "")
        alignment == IF starred THEN <<"{" \o self.alignment[1] \o "}">> ELSE <<>>
    IN  [raised |-> None,
         string |-> <<"\\begin{", mtype, "}">> \o alignment \o <<"\n">>
                    \o MatrixBody(self.matrix)
                    \o <<"\n", "\\end{", mtype, "}">>,
         self   |-> self]

\* Math.__init__
Math_init(data, inline) ==
    [kind |-> "Math", inline |-> inline, data |-> data,
     packages |-> LatexObject_init(<<>>)]

RECURSIVE ItemDumps(_)
RECURSIVE DumpsItems(_, _, _)
RECURSIVE Container_dumps(_, _)
RECURSIVE Math_dumps(_)

\* dumps_list over the items from i on: each item's text, and the items as they are left
DumpsItems(data, texts, i) ==
    IF i > Len(data) THEN [data |-> data, texts |-> texts]
    ELSE LET r == ItemDumps(data[i])
         IN  DumpsItems([data EXCEPT ![i] = r.self], Append(texts, r.string), i + 1)

\* Container.dumps(token=...)
Container_dumps(self, token) ==
    LET propagated == propagate_packages(self)
        r == DumpsItems(propagated.data, <<>>, 1)
    IN  [raised |-> None,
         string |-> Join(r.texts, token),
         self   |-> [propagated EXCEPT !.data = r.data]]

\* the delimiters as they would be without the line break
MathDelimitersNoBreak(inline) ==
    IF inline THEN [open |-> <<"$">>, close |-> <<"$">>]
    ELSE [open |-> <<"$$">>, close |-> <<"$$">>]

\* Math.dumps: the delimiters put around the content
MathDelimiters(inline) ==
    IF inline THEN [open |-> <<"$">>, close |-> <<"$">>]
    ELSE [open |-> <<"$$">>, close |-> <<"$$", "\n">>]

\* Math.dumps
Math_dumps(self) ==
    LET d      == MathDelimiters(self.inline)
        first  == Container_dumps(self, " ")
        second == Container_dumps(first.self, "\n")
    IN  [raised |-> None,
         string |-> d.open \o first.string \o d.close,
         self   |-> second.self]

\* _latex_item_to_string: an item's dumps(), a literal as it is
ItemDumps(item) ==
    CASE item.kind = "Text"    -> [raised |-> None, string |-> <<item.text>>, self |-> item]
      [] item.kind = "Command" -> [raised |-> None, string |-> Command_dumps(item), self |-> item]
      [] item.kind = "Matrix"  -> Matrix_dumps(item)
      [] item.kind = "Math"    -> Math_dumps(item)

----------------------------------------------------------------------------
(* document.py: the Document and its rendering *)

\* Document.__init__
Document_init(default_filepath, documentclass, fontenc, inputenc, author, title, date, data, maketitle) ==
    [kind |-> "Document",
     default_filepath |-> default_filepath,
     maketitle |-> maketitle,
     documentclass |-> Command("documentclass", <<documentclass>>, <<>>, <<>>),
     preamble |-> <<Command("title", <<title>>, <<>>, <<>>),
                    Command("author", <<author>>, <<>>, <<>>),
                    Command("date", <<date>>, <<>>, <<>>)>>,
     data |-> data,
     packages |-> LatexObject_init(<<Package("fontenc", <<fontenc>>),
                                    Package("inputenc", <<inputenc>>),
                                    Package("lmodern", <<>>)>>)]

\* dumps_list(self.preamble)
DumpsPreamble(preamble) ==
    Join([i \in 1..Len(preamble) |-> Command_dumps(preamble[i])], linesep)

\* the text Document.dumps puts together from its parts
\* Document.dumps as it would be with the preamble before the packages
DocumentTextPreambleFirst(self, packages, body) ==
    LET document == <<"\\begin{document}", linesep>>
                    \o (IF self.maketitle THEN <<"\\maketitle", linesep>> ELSE <<>>)
                    \o body \o <<linesep>>
                    \o <<"\\end{document}", linesep>>
        head == Command_dumps(self.documentclass) \o <<linesep>>
                \o DumpsPreamble(self.preamble) \o <<linesep>>
                \o packages \o <<linesep>>
    IN  head \o <<linesep>> \o document

\* Document.dumps: the text put together from its parts
DocumentText(self, packages, body) ==
    LET document == <<"\\begin{document}", linesep>>
                    \o (IF self.maketitle THEN <<"\\maketitle", linesep>> ELSE <<>>)
                    \o body \o <<linesep>>
                    \o <<"\\end{document}", linesep>>
        head == Command_dumps(self.documentclass) \o <<linesep>>
                \o packages \o <<linesep>>
                \o DumpsPreamble(self.preamble) \o <<linesep>>
    IN  head \o <<linesep>> \o document

\* Document.dumps as it would be with the head rendered before the content
Document_dumps_head_first(self) ==
    LET packages == dumps_packages(self)
        body == Container_dumps(self, linesep)
    IN  [raised |-> None,
         string |-> DocumentText(self, packages, body.string),
         self   |-> body.self]

\* Document.dumps: the content is rendered (and the packages gathered) before the head
Document_dumps(self) ==
    LET body == Container_dumps(self, linesep)
        packages == dumps_packages(body.self)
    IN  [raised |-> None,
         string |-> DocumentText(self, packages, body.string),
         self   |-> body.self]

\* Container.append
Container_append(self, item) == [self EXCEPT !.data = Append(@, item)]

----------------------------------------------------------------------------
(* document.py: paths (posixpath) *)

sep == "/"

\* p.rfind('/') + 1
RFind(p) ==
    LET at == { i \in 1..Len(p) : p[i] = sep }
    IN  IF at = {} THEN 0 ELSE CHOOSE i \in at : \A j \in at : j <= i

\* os.path.basename
basename(p) == SubSeq(p, RFind(p) + 1, Len(p))

RECURSIVE RStrip(_)
\* head.rstrip('/')
RStrip(p) == IF p # <<>> /\ p[Len(p)] = sep THEN RStrip(SubSeq(p, 1, Len(p) - 1)) ELSE p

\* os.path.dirname
dirname(p) ==
    LET head == SubSeq(p, 1, RFind(p))
    IN  IF head # <<>> /\ (\E i \in 1..Len(head) : head[i] # sep) THEN RStrip(head) ELSE head

\* os.path.join(a, b)
join(a, b) ==
    IF b # <<>> /\ b[1] = sep THEN b
    ELSE IF a = <<>> \/ a[Len(a)] = sep THEN a \o b
    ELSE a \o <<sep>> \o b

\* select_filepath as it would be joining the whole default path
select_filepath_whole_default(self, filepath) ==
    IF filepath = <<>> THEN self.default_filepath
    ELSE IF basename(filepath) = <<>> THEN join(filepath, self.default_filepath)
    ELSE filepath

\* Document.select_filepath
select_filepath(self, filepath) ==
    IF filepath = <<>> THEN self.default_filepath
    ELSE IF basename(filepath) = <<>> THEN join(filepath, basename(self.default_filepath))
    ELSE filepath

----------------------------------------------------------------------------
(* document.py: generate_pdf, with the file system and the compiler it meets *)

RECURSIVE Components(_)
\* the names a path is made of
Components(p) ==
    LET at == { i \in 1..Len(p) : p[i] = sep }
        i  == IF at = {} THEN Len(p) + 1 ELSE CHOOSE k \in at : \A j \in at : k <= j
    IN  IF p = <<>> THEN <<>>
        ELSE (IF i = 1 THEN <<>> ELSE <<SubSeq(p, 1, i - 1)>>)
             \o (IF i >= Len(p) THEN <<>> ELSE Components(SubSeq(p, i + 1, Len(p))))

RECURSIVE Walk(_, _)
Walk(dir, names) ==
    IF names = <<>> THEN dir
    ELSE Walk(IF Head(names) = <<".">> THEN dir
              ELSE IF Head(names) = <<".", ".">>
                   THEN (IF dir = <<>> THEN dir ELSE SubSeq(dir, 1, Len(dir) - 1))
              ELSE Append(dir, Head(names)),
              Tail(names))

\* the directory a relative path names, seen from dir
Resolve(dir, p) == Walk(dir, Components(p))

\* the directories that exist: the one the process starts in, and s in it
Dirs == { <<>>, << <<"s">> >> }

\* the file base.ext in dir
File(dir, base, ext) == [dir |-> dir, base |-> base, ext |-> ext]

Exception(type, errno, output) == [type |-> type, errno |-> errno, output |-> output]

CleanExts == <<"aux", "log", "out", "tex">>

\* the loop as it would be without the errno test: a missing file ends it
RECURSIVE RemoveLoopStopAtMissing(_, _, _, _, _, _)
RemoveLoopStopAtMissing(exts, dir, base, locked, fs, done) ==
    IF exts = <<>> THEN [files |-> fs, attempted |-> done, raised |-> None]
    ELSE LET ext == Head(exts)
             f   == File(dir, base, ext)
             att == Append(done, ext)
         IN  IF f \notin fs
             THEN [files |-> fs, attempted |-> att, raised |-> Some(Exception("OSError", "ENOENT", <<>>))]
             ELSE IF ext \in locked
             THEN [files |-> fs, attempted |-> att, raised |-> Some(Exception("OSError", "EACCES", <<>>))]
             ELSE RemoveLoopStopAtMissing(Tail(exts), dir, base, locked, fs \ {f}, att)

RECURSIVE RemoveLoop(_, _, _, _, _, _)
\* for ext in [...]: os.remove(basename + '.' + ext), a missing file passed over
RemoveLoop(exts, dir, base, locked, fs, done) ==
    IF exts = <<>> THEN [files |-> fs, attempted |-> done, raised |-> None]
    ELSE LET ext == Head(exts)
             f   == File(dir, base, ext)
             att == Append(done, ext)
         IN  IF f \notin fs
             THEN RemoveLoop(Tail(exts), dir, base, locked, fs, att)
             ELSE IF ext \in locked
             THEN [files |-> fs, attempted |-> att, raised |-> Some(Exception("OSError", "EACCES", <<>>))]
             ELSE RemoveLoop(Tail(exts), dir, base, locked, fs \ {f}, att)

\* what the call leaves: the working directory, the files, the temporary directory,
\* and the record of what it did
Outcome(d, fs, tmp, raised, compiler, printed, attempted) ==
    [cwd |-> d, files |-> fs, tmpdir |-> tmp, raised |-> raised, compiler |-> compiler,
     printed |-> printed, attempted |-> attempted]

\* the directory and the name generate_pdf works on
Target(self, filepath, cwd0) ==
    LET path == join(<<".">>, select_filepath(self, filepath))
    IN  [dest |-> Resolve(cwd0, dirname(path)), basename |-> basename(path)]

\* Document.generate_pdf.  env is what the call meets: whether the .tex file can be
\* written, how the compiler ends and what it writes to its two streams, the files it
\* leaves, and the files that cannot be removed.
generate_pdf(self, filepath, clean, silent, env, cwd0, files0, tmpdir0) ==
    LET selected_path == select_filepath(self, filepath)
        path     == join(<<".">>, selected_path)
        cur_dir  == cwd0
        dest_dir == dirname(path)
        base     == basename(path)
        dest     == Resolve(cwd0, dest_dir)
        tex_path == select_filepath(self, base)
        tex_file == File(Resolve(dest, dirname(tex_path)), basename(tex_path), "tex")
        files1   == files0 \cup {tex_file}
        made     == { File(dest, base, ext) : ext \in env.byproducts }
        files2   == files1 \cup made
        files3   == files2 \cup {File(dest, base, "pdf")}
        loop     == RemoveLoop(CleanExts, dest, base, env.locked, files3, <<>>)
    IN  IF dest \notin Dirs
        THEN \* os.chdir(dest_dir) raises
             Outcome(cwd0, files0, tmpdir0, Some(Exception("OSError", "ENOENT", <<>>)),
                     "not run", <<>>, <<>>)
        ELSE IF ~env.tex_writable \/ tex_file.dir \notin Dirs
        THEN \* self.generate_tex(basename) raises
             Outcome(dest, files0, tmpdir0, Some(Exception("IOError", "EACCES", <<>>)),
                     "not run", <<>>, <<>>)
        ELSE IF env.compiler = "missing"
        THEN \* subprocess.check_output raises: no such program
             Outcome(dest, files1, tmpdir0, Some(Exception("OSError", "ENOENT", <<>>)),
                     "missing", <<>>, <<>>)
        ELSE IF env.compiler = "nonzero"
        THEN \* except subprocess.CalledProcessError as e: print(e.output.decode()); raise e
             Outcome(dest, files2, tmpdir0,
                     Some(Exception("CalledProcessError", "", env.stdout)),
                     "nonzero", env.stdout, <<>>)
        ELSE IF ~clean
        THEN Outcome(cur_dir, files3, tmpdir0, None, "ok",
                     IF silent THEN <<>> ELSE env.stdout, <<>>)
        ELSE IF loop.raised # None
        THEN Outcome(dest, loop.files, tmpdir0, loop.raised, "ok",
                     IF silent THEN <<>> ELSE env.stdout, loop.attempted)
        ELSE \* rm_temp_dir(); os.chdir(cur_dir)
             Outcome(cur_dir, loop.files, FALSE, None, "ok",
                     IF silent THEN <<>> ELSE env.stdout, loop.attempted)

----------------------------------------------------------------------------
(* The objects the model builds *)

Elems == {-1, 12}

Arrays ==
    UNION { { Array(r, c, flat) : flat \in [1..(r * c) -> Elems] }
            : <<r, c>> \in (0..MaxRows) \X (0..MaxCols) }

MatrixNodes ==
    { Matrix_init(m, "", mtype, alignment) :
        m \in Arrays, mtype \in {"p", "b"}, alignment \in {None, Some("r")} }

aMatrix == Matrix_init(Array(2, 2, <<-1, 12, 12, -1>>), "", "p", None)
aRow == Matrix_init(Array(1, 1, <<12>>), "", "b", Some("c"))

MathLeaves == {Text("x"), VectorName("v"), aMatrix}

SeqsUpTo(S, n) == UNION { [1..k -> S] : k \in 0..n }

MathNodes ==
    { Math_init(data, inline) : data \in SeqsUpTo(MathLeaves, MaxMathLen), inline \in BOOLEAN }

\* objects that declare a package the tree already has, with other options
fontCommand == Command("selectfont", <<>>, <<>>, <<Package("fontenc", <<"OT1">>)>>)
eqCommand == Command("eqref", <<"e">>, <<>>, <<Package("amsmath", <<"fleqn">>)>>)

Items ==
    {Text("Hello"), aMatrix, aRow, fontCommand, eqCommand,
     Math_init(<<aMatrix>>, TRUE), Math_init(<<fontCommand, Text("x"), eqCommand>>, FALSE)}

DefaultPath == <<"d">>
FontEnc == "T1"
InputEnc == "utf8"

Documents ==
    { Document_init(DefaultPath, "article", FontEnc, InputEnc, author, title, date, <<>>, maketitle) :
        author \in {"", "A"}, title \in {"", "T"}, date \in {"", "D"}, maketitle \in BOOLEAN }

aDocument == Document_init(DefaultPath, "article", FontEnc, InputEnc, "", "", "", <<>>, FALSE)

----------------------------------------------------------------------------
(* Rendering a Document *)

InitOthers ==
    /\ node = aMatrix
    /\ result = None
    /\ cwd = <<>>
    /\ files = {}
    /\ tmpdir = TRUE
    /\ call = None
    /\ selected = None

Init ==
    /\ doc \in Documents
    /\ renders = <<>>
    /\ InitOthers

\* doc.append(item)
DocAppend ==
    \E item \in Items :
        /\ Len(doc.data) < MaxChildren
        /\ doc' = Container_append(doc, item)
        /\ renders' = <<>>
        /\ UNCHANGED <<node, result, cwd, files, tmpdir, call, selected>>

\* doc.dumps()
DocDumps ==
    /\ Len(renders) < MaxRenders
    /\ LET r == Document_dumps(doc)
       IN  /\ doc' = r.self
           /\ renders' = Append(renders, [string |-> r.string, packages |-> r.self.packages])
    /\ UNCHANGED <<node, result, cwd, files, tmpdir, call, selected>>

Next == DocAppend \/ DocDumps

Spec == Init /\ [][Next]_vars

----------------------------------------------------------------------------
(* Rendering a math node on its own *)

InitMath ==
    /\ node \in MatrixNodes \cup MathNodes
    /\ result = None
    /\ doc = aDocument
    /\ renders = <<>>
    /\ cwd = <<>>
    /\ files = {}
    /\ tmpdir = TRUE
    /\ call = None
    /\ selected = None

\* a Matrix's dumps()
DumpsMatrix ==
    /\ node.kind = "Matrix"
    /\ result = None
    /\ LET r == Matrix_dumps(node)
       IN  /\ node' = r.self
           /\ result' = Some([raised |-> r.raised, string |-> r.string])
    /\ UNCHANGED <<doc, renders, cwd, files, tmpdir, call, selected>>

\* a Math's dumps()
DumpsMath ==
    /\ node.kind = "Math"
    /\ Len(result) < MaxRenders
    /\ LET r == Math_dumps(node)
       IN  /\ node' = r.self
           /\ result' = Append(result, [raised |-> r.raised, string |-> r.string])
    /\ UNCHANGED <<doc, renders, cwd, files, tmpdir, call, selected>>

NextMath == DumpsMatrix \/ DumpsMath

SpecMath == InitMath /\ [][NextMath]_vars

----------------------------------------------------------------------------
(* Choosing the output path *)

Chars == {sep, "a", "b"}

Paths == SeqsUpTo(Chars, MaxPathLen)

InitPath ==
    /\ doc \in { Document_init(d, "article", FontEnc, InputEnc, "", "", "", <<>>, FALSE) : d \in Paths }
    /\ selected = None
    /\ renders = <<>>
    /\ node = aMatrix
    /\ result = None
    /\ cwd = <<>>
    /\ files = {}
    /\ tmpdir = TRUE
    /\ call = None

\* doc.select_filepath(filepath)
SelectFilepath ==
    \E filepath \in Paths :
        /\ selected' = Some([filepath |-> filepath,
                             default_filepath |-> doc.default_filepath,
                             returned |-> select_filepath(doc, filepath)])
        /\ UNCHANGED <<doc, renders, node, result, cwd, files, tmpdir, call>>

NextPath == SelectFilepath

SpecPath == InitPath /\ [][NextPath]_vars

----------------------------------------------------------------------------
(* Generating the pdf *)

Stdout == <<"This is pdfTeX">>
Stderr == <<"undefined control sequence">>

Envs ==
    [tex_writable : BOOLEAN,
     compiler : {"ok", "nonzero", "missing"},
     stdout : {Stdout},
     stderr : {<<>>, Stderr},
     byproducts : {{"log"}, {"aux", "log"}, {"aux", "log", "out"}},
     locked : {{}, {"aux"}, {"out"}, {"tex"}}]

PdfPaths == { <<>>, <<"a">>, <<"s", sep, "a">>, <<"s", sep>> }

\* what an earlier run may have left behind
Leftovers ==
    { {}, {File(<<>>, DefaultPath, "out")},
      {File(<< <<"s">> >>, <<"a">>, "aux"), File(<< <<"s">> >>, <<"a">>, "out")} }

InitPdf ==
    /\ doc = aDocument
    /\ cwd \in Dirs
    /\ files \in Leftovers
    /\ tmpdir = TRUE
    /\ call = None
    /\ renders = <<>>
    /\ node = aMatrix
    /\ result = None
    /\ selected = None

\* doc.generate_pdf(filepath, clean, silent=...)
GeneratePdf ==
    \E filepath \in PdfPaths, clean \in BOOLEAN, silent \in BOOLEAN, env \in Envs :
        /\ call = None
        /\ LET r == generate_pdf(doc, filepath, clean, silent, env, cwd, files, tmpdir)
           IN  /\ cwd' = r.cwd
               /\ files' = r.files
               /\ tmpdir' = r.tmpdir
               /\ call' = Some([filepath |-> filepath, clean |-> clean, silent |-> silent,
                                env |-> env, cur_dir |-> cwd, files |-> files, tmpdir |-> tmpdir,
                                target |-> Target(doc, filepath, cwd),
                                raised |-> r.raised, compiler |-> r.compiler,
                                printed |-> r.printed, attempted |-> r.attempted])
        /\ UNCHANGED <<doc, renders, node, result, selected>>

NextPdf == GeneratePdf

SpecPdf == InitPdf /\ [][NextPdf]_vars

----------------------------------------------------------------------------
(* What the claims are stated with *)

Count(s, t) == Cardinality({ i \in 1..Len(s) : s[i] = t })

\* the first place of token t in s, 0 when it is not there
IndexOf(s, t) ==
    LET at == { i \in 1..Len(s) : s[i] = t }
    IN  IF at = {} THEN 0 ELSE CHOOSE i \in at : \A j \in at : i <= j

\* the texts one after the other with exactly one token between two of them
Flat(texts, token) ==
    LET F[i \in 0..Len(texts)] ==
            IF i = 0 THEN <<>>
            ELSE IF i = 1 THEN texts[1]
            ELSE F[i - 1] \o <<token>> \o texts[i]
    IN  F[Len(texts)]

\* what each child of a container serializes to
ChildTexts(data) == [i \in 1..Len(data) |-> ItemDumps(data[i]).string]

----------------------------------------------------------------------------
(* C1, C2, C9: generate_pdf *)

\* C1: when a generate_pdf call has ended, however it ended, the current working
\* directory is the one that was current when the call began.
C1_CwdRestoredOnEveryExit ==
    call # None => cwd = call[1].cur_dir

\* C2: when the compiler exits with a non-zero code, generate_pdf raises, and what
\* the failure carries contains every text the compiler wrote, the text written to
\* its error stream included.
C2_FailureCarriesCompilerText ==
    (call # None /\ call[1].compiler = "nonzero") =>
        /\ call[1].raised # None
        /\ \A i \in 1..Len(call[1].env.stdout) :
              \E j \in 1..Len(call[1].raised[1].output) :
                  call[1].raised[1].output[j] = call[1].env.stdout[i]
        /\ \A i \in 1..Len(call[1].env.stderr) :
              \E j \in 1..Len(call[1].raised[1].output) :
                  call[1].raised[1].output[j] = call[1].env.stderr[i]

\* the file basename.ext the call may remove
Intermediate(c, ext) == File(c.target.dest, c.target.basename, ext)

\* whether basename.ext is there when the cleanup starts: it was there before the
\* call, or the call wrote it (.tex), or the compiler left it
PresentAtCleanup(c, ext) ==
    \/ Intermediate(c, ext) \in c.files
    \/ ext = "tex"
    \/ ext \in c.env.byproducts

\* the files among the four whose removal fails for another reason than absence
Failing(c) ==
    { i \in 1..Len(CleanExts) : PresentAtCleanup(c, CleanExts[i]) /\ CleanExts[i] \in c.env.locked }

\* C9: with clean requested and the compiler successful, removal is attempted for
\* basename.aux, .log, .out and .tex in this order; a file that is not there is
\* passed over and the next ones are still attempted; the first removal that fails
\* for another reason ends the call with that error.  Without clean, or when the
\* compiler has not succeeded, no removal is attempted, no file is removed and the
\* temporary directory stays.
C9_Cleanup ==
    call # None =>
        LET c == call[1]
        IN  IF c.compiler = "ok" /\ c.clean
            THEN /\ Failing(c) = {} =>
                        /\ c.attempted = CleanExts
                        /\ c.raised = None
                        /\ \A i \in 1..Len(CleanExts) : Intermediate(c, CleanExts[i]) \notin files
                        /\ ~tmpdir
                 /\ Failing(c) # {} =>
                        LET first == CHOOSE i \in Failing(c) : \A j \in Failing(c) : i <= j
                        IN  /\ c.attempted = SubSeq(CleanExts, 1, first)
                            /\ c.raised # None
                            /\ c.raised[1].type = "OSError"
                            /\ c.raised[1].errno # "ENOENT"
                            /\ \A i \in 1..(first - 1) : Intermediate(c, CleanExts[i]) \notin files
                            /\ Intermediate(c, CleanExts[first]) \in files
                            /\ tmpdir = c.tmpdir
            ELSE /\ c.attempted = <<>>
                 /\ c.files \subseteq files
                 /\ tmpdir = c.tmpdir

\* a clean call after a successful compile that found basename.out missing and
\* went on to remove basename.tex
C9_Witness ==
    /\ call # None
    /\ call[1].compiler = "ok"
    /\ call[1].clean
    /\ ~PresentAtCleanup(call[1], "out")
    /\ call[1].attempted = CleanExts
    /\ call[1].raised = None

----------------------------------------------------------------------------
(* C8: select_filepath *)

\* the part of d after its last separator (all of d when it has none)
FilenameComponent(d) ==
    LET k == CHOOSE n \in 0..Len(d) :
                /\ \A i \in (Len(d) - n + 1)..Len(d) : d[i] # sep
                /\ (n = Len(d) \/ d[Len(d) - n] = sep)
    IN  SubSeq(d, Len(d) - k + 1, Len(d))

\* C8: select_filepath returns the default path as it is for an empty path, the
\* path followed by the default path's filename for a path that ends with a
\* separator, and the path as it is otherwise; default_filepath is left as it was.
C8_SelectFilepath ==
    selected # None =>
        LET p == selected[1].filepath
            d == selected[1].default_filepath
            r == selected[1].returned
        IN  /\ (p = <<>> => r = d)
            /\ (p # <<>> /\ p[Len(p)] = sep => r = p \o FilenameComponent(d))
            /\ (p # <<>> /\ p[Len(p)] # sep => r = p)
            /\ doc.default_filepath = d

\* a directory given, and a default path with a directory part and a filename
C8_Witness ==
    /\ selected # None
    /\ LET p == selected[1].filepath
           d == selected[1].default_filepath
       IN  /\ p # <<>> /\ p[Len(p)] = sep
           /\ d # <<>> /\ d[Len(d)] # sep
           /\ \E i \in 1..Len(d) : d[i] = sep

----------------------------------------------------------------------------
(* C6, C7, C10: math nodes *)

\* the body of a rendered matrix: what lies between the begin line and the end line
BodyOf(self, string) ==
    LET first == IF self.alignment = None THEN 5 ELSE 6
    IN  SubSeq(string, first, Len(string) - 4)

\* C6: for R >= 1 rows and C >= 1 columns the body holds the elements in row-major
\* order, one & between two elements of a row (C-1 a row), and \\ with a line break
\* after every row but the last (R-1 in all); nothing else.
C6_MatrixShapeLaw ==
    (node.kind = "Matrix" /\ result # None
        /\ node.matrix.shape[1] >= 1 /\ node.matrix.shape[2] >= 1) =>
        LET R == node.matrix.shape[1]
            C == node.matrix.shape[2]
            body == BodyOf(node, result[1].string)
            row(y) == y * (2 * C + 1)
        IN  /\ Len(body) = R * (2 * C - 1) + 2 * (R - 1)
            /\ Count(body, RowSep) = R - 1
            /\ Count(body, ColSep) = R * (C - 1)
            /\ \A y \in 0..(R - 1) :
                  /\ \A x \in 0..(C - 1) :
                        body[row(y) + 2 * x + 1] = str(node.matrix.flat[y * C + x + 1])
                  /\ \A x \in 0..(C - 2) : body[row(y) + 2 * x + 2] = ColSep
                  /\ y < R - 1 => /\ body[row(y) + 2 * C] = RowSep
                                  /\ body[row(y) + 2 * C + 1] = "\n"

\* a matrix with several rows and several columns, rendered
C6_Witness ==
    /\ node.kind = "Matrix"
    /\ result # None
    /\ node.matrix.shape[1] >= 2
    /\ node.matrix.shape[2] >= 2

\* C7: inline, Math.dumps is $, the children's texts with one space between two of
\* them, $, and no line break after it; not inline it is $$, the same content, $$
\* and exactly one line break.
C7_MathDelimiters ==
    node.kind = "Math" =>
        \A k \in 1..Len(result) :
            LET s == result[k].string
                content == Flat(ChildTexts(node.data), " ")
                n == Len(s)
            IN  IF node.inline
                THEN /\ n = Len(content) + 2
                     /\ s[1] = "$" /\ s[n] = "$"
                     /\ SubSeq(s, 2, n - 1) = content
                ELSE /\ n = Len(content) + 3
                     /\ s[1] = "$$" /\ s[n - 1] = "$$" /\ s[n] = "\n"
                     /\ SubSeq(s, 2, n - 2) = content

\* a block Math with two children, rendered
C7_Witness ==
    /\ node.kind = "Math"
    /\ ~node.inline
    /\ Len(node.data) >= 2
    /\ result # None

\* C10: a Matrix given an array with no rows or no columns is rejected, at
\* construction or by dumps: dumps does not return a text for it.
C10_DegenerateArrayRejected ==
    (node.kind = "Matrix" /\ result # None
        /\ (node.matrix.shape[1] = 0 \/ node.matrix.shape[2] = 0)) =>
        result[1].raised # None

----------------------------------------------------------------------------
(* C3, C4, C5: Document.dumps *)

\* C3: the rendered document is the documentclass directive, the package
\* directives, \title, \author, \date, \begin{document}, \maketitle exactly when
\* the flag is set, the children's texts in the order of the children, \end{document}.
C3_DocumentOrder ==
    \A k \in 1..Len(renders) :
        LET s  == renders[k].string
            dc == IndexOf(s, "\\documentclass")
            t  == IndexOf(s, "\\title")
            a  == IndexOf(s, "\\author")
            d  == IndexOf(s, "\\date")
            b  == IndexOf(s, "\\begin{document}")
            e  == IndexOf(s, "\\end{document}")
            start == b + 2 + (IF doc.maketitle THEN 2 ELSE 0)
        IN  /\ dc = 1
            /\ \A w \in {"\\documentclass", "\\title", "\\author", "\\date",
                         "\\begin{document}", "\\end{document}"} : Count(s, w) = 1
            /\ Count(s, "\\usepackage") >= 1
            /\ \A i \in 1..Len(s) : s[i] = "\\usepackage" => (dc < i /\ i < t)
            /\ t < a /\ a < d /\ d < b /\ b < e
            /\ Count(s, "\\maketitle") = (IF doc.maketitle THEN 1 ELSE 0)
            /\ doc.maketitle => s[b + 2] = "\\maketitle"
            /\ SubSeq(s, start, e - 2) = Flat(ChildTexts(doc.data), linesep)
            /\ e = Len(s) - 1

\* a document with maketitle set and two different children, rendered
C3_Witness ==
    /\ renders # <<>>
    /\ doc.maketitle
    /\ Len(doc.data) >= 2
    /\ doc.data[1] # doc.data[2]

\* C4: with no append in between, every render returns the text the first one
\* returned and leaves the package registry the first one left.
C4_RenderIdempotent ==
    \A k \in 1..Len(renders) : renders[k] = renders[1]

\* a document with a Math child and a Matrix child, rendered twice
C4_Witness ==
    /\ Len(renders) >= 2
    /\ \E i \in 1..Len(doc.data) : doc.data[i].kind = "Math"
    /\ \E i \in 1..Len(doc.data) : doc.data[i].kind = "Matrix"

\* the packages the Document is constructed with
Baseline ==
    <<Package("fontenc", <<FontEnc>>), Package("inputenc", <<InputEnc>>), Package("lmodern", <<>>)>>

RECURSIVE Declared(_)
\* the packages the items declare, in the order of the tree
Declared(data) ==
    IF data = <<>> THEN <<>>
    ELSE LET item == Head(data)
         IN  (CASE item.kind = "Text" -> <<>>
                [] item.kind = "Math" -> Declared(item.data)
                [] OTHER -> item.packages)
             \o Declared(Tail(data))

RECURSIVE HasMatrix(_)
HasMatrix(data) ==
    /\ data # <<>>
    /\ \/ Head(data).kind = "Matrix"
       \/ (Head(data).kind = "Math" /\ HasMatrix(Head(data).data))
       \/ HasMatrix(Tail(data))

\* the package directive that starts at place i of s
DirectiveAt(s, i) ==
    IF s[i + 1] = "["
    THEN LET j == CHOOSE n \in (i + 1)..Len(s) :
                     s[n] = "]" /\ \A m \in (i + 1)..(n - 1) : s[m] # "]"
         IN  [name |-> s[j + 2], options |-> [n \in 1..((j - i - 1) \div 2) |-> s[i + 2 * n]]]
    ELSE [name |-> s[i + 2], options |-> <<>>]

DirectivesFor(s, name) ==
    { i \in 1..Len(s) : s[i] = "\\usepackage" /\ DirectiveAt(s, i).name = name }

\* C5: the rendered document holds exactly one package directive for every name
\* declared in the tree (amsmath as soon as there is a Matrix), with the options of
\* the first declaration of that name: the Document's own first, then the
\* children's in the order of the tree.
C5_OneDirectivePerName ==
    \A k \in 1..Len(renders) :
        LET s == renders[k].string
            decls == Baseline \o Declared(doc.data)
            names == { decls[i].name : i \in 1..Len(decls) }
                     \cup (IF HasMatrix(doc.data) THEN {"amsmath"} ELSE {})
        IN  \A name \in names :
                /\ Cardinality(DirectivesFor(s, name)) = 1
                /\ \A i \in 1..Len(decls) :
                      (decls[i].name = name /\ \A j \in 1..(i - 1) : decls[j].name # name) =>
                          \A at \in DirectivesFor(s, name) :
                              DirectiveAt(s, at).options = decls[i].options

\* a rendered document in which amsmath is declared twice with different options
\* and fontenc is declared again by a child
C5_Witness ==
    /\ renders # <<>>
    /\ LET decls == Declared(doc.data)
       IN  /\ \E i, j \in 1..Len(decls) :
                  /\ decls[i].name = "amsmath" /\ decls[j].name = "amsmath"
                  /\ decls[i].options # decls[j].options
           /\ \E i \in 1..Len(decls) : decls[i].name = "fontenc"

====
